---- MODULE Spec2Model ----
(***************************************************************************)
(* Model of loggatherer (cmd/main.go): the fan-out in main, the per-server *)
(* worker CopyFiles, the stream copier copyFile and the retention pruner   *)
(* cleanup.                                                                *)
(*                                                                         *)
(* Strings that the program inspects character by character (file names,   *)
(* snapshot directory names) are sequences of one-character strings.        *)
(* Timestamps of files are small integers; the wall clock at the moment of *)
(* a write is the value WallClock, later than every source timestamp.      *)
(***************************************************************************)
EXTENDS Integers, Sequences, FiniteSets, TLC

\* ---------------------------------------------------------------- bounds
MaxServers == 2
MaxEntries == 2
MaxTime == 3

VARIABLES
    \* configuration and environment, fixed for one run
    keys,       \* cfg.Section(cluster).Keys(): sequence of [name, value]
    compress,   \* -compress flag
    startTime,  \* window start
    endTime,    \* window end = startTime + dur
    dir,        \* dir[w]: os.ReadDir listing of server w's source path
    faults,     \* faults[w][i]: the I/O calls that fail on entry i of dir[w]
    srvEnv,     \* srvEnv[w]: outcome of Stat / MkdirAll / ReadDir for server w
    \* main goroutine
    mainPc,     \* "loop" | "wait" | "exit"
    ki,         \* number of keys of the section already handled by the loop
    share,      \* local variable share of main
    wg,         \* counter of the sync.WaitGroup
    spawned,    \* spawned[w]: number of goroutines started for server key w
    \* worker goroutines
    pc,         \* pc[w]: "idle" | "stat" | "readdir" | "loop" | "done"
    src,        \* src[w]: the src argument of CopyFiles
    idx,        \* idx[w]: number of directory entries already handled
    handles,    \* handles[w]: streams currently open ("s", "d", "zd")
    dstDir,     \* dstDir[w]: <dst>/<server> exists
    dst,        \* dst[w]: files under <dst>/<server>: name -> [data, mtime]
    ev,         \* ev[w]: I/O calls and log lines of the last loop iteration
    wlog,       \* wlog[w]: worker-level log lines
    exited,     \* [how, by, why]: "no", "fatal" (log.Fatalf in worker by) or "returned"
    \* copyFile
    cSrc,       \* the bytes the source stream holds
    cPos,       \* bytes the reader has handed out
    cBuf,       \* buf[:n] after the last Read
    cOut,       \* the bytes the destination has taken
    cPc,        \* "read" | "write" | "done"
    cRet,       \* "none" | "nil" | "error": what copyFile returned
    cFailed,    \* a Read (not end-of-stream) or a Write has failed
    \* cleanup
    cleanPc,    \* "list" | "loop" | "fatal"
    dur,        \* retention duration in seconds (-duration)
    children,   \* os.ReadDir(destination): sequence of child entries
    ci,         \* children already handled by the loop
    now,        \* the clock: [d, s] days and second of the day
    seen,       \* seen[i]: the clock when child i was handled
    rmCalls,    \* the children os.RemoveAll was called on
    present,    \* the children still on disk
    clog        \* children a "cannot delete folder" line was logged for

mainVars == <<keys, compress, startTime, endTime, dir, faults, srvEnv, mainPc, ki,
              share, wg, spawned, pc, src, idx, handles, dstDir, dst, ev, wlog, exited>>

copyVars == <<cSrc, cPos, cBuf, cOut, cPc, cRet, cFailed>>
cleanVars == <<cleanPc, dur, children, ci, now, seen, rmCalls, present, clog>>
vars == <<mainVars, copyVars, cleanVars>>

\* ------------------------------------------------------------ small helpers
Servers == 1..MaxServers
WallClock == MaxTime + 1

Min(a, b) == IF a < b THEN a ELSE b

RECURSIVE Perms(_)
\* all orders of the elements of a finite set
Perms(S) ==
    IF S = {} THEN {<<>>}
    ELSE UNION {{<<x>> \o p : p \in Perms(S \ {x})} : x \in S}

RECURSIVE SubSeqs(_, _)
\* the order-preserving sub-sequences of s of length at most n
SubSeqs(s, n) ==
    IF n = 0 \/ s = <<>> THEN {<<>>}
    ELSE SubSeqs(Tail(s), n) \cup {<<Head(s)>> \o t : t \in SubSeqs(Tail(s), n - 1)}

\* ------------------------------------------------------------ strings
DotTmp == <<".", "t", "m", "p">>
DotGz == <<".", "g", "z">>

\* strings.HasSuffix(s, suffix)
HasSuffix(s, suffix) ==
    /\ Len(s) >= Len(suffix)
    /\ SubSeq(s, Len(s) - Len(suffix) + 1, Len(s)) = suffix

\* targetName := finfo.Name(); if compress { targetName += ".gz" }
TargetName(name, c) == IF c THEN name \o DotGz ELSE name

\* ------------------------------------------------------------ configuration
LogshareName == <<"logshare", 0>>
ServerName(i) == <<"server", i>>
HostOf(i) == <<"host", i>>
DefaultShare == "SPSS_DIMENSIONS_LOGS"
ShareValues == {"", "LOGS"}

\* k.MustString(defaultVal): the default replaces an empty value
MustString(v, d) == IF v = "" THEN d ELSE v

\* fmt.Sprintf("//%s/%s", k.Value(), share)
SrcPath(host, sh) == [host |-> host, share |-> sh]

\* the sections of at most n servers and one logshare key, in every key order
Sections(n) ==
    UNION {UNION {Perms({[name |-> LogshareName, value |-> v]}
                        \cup {[name |-> ServerName(i), value |-> HostOf(i)] : i \in 1..m})
                  : v \in ShareValues}
           : m \in 0..n}

ServerKeysOf(sect) ==
    {i \in Servers : \E j \in DOMAIN sect : sect[j].name = ServerName(i)}

\* ------------------------------------------------------------ directories
\* Candidate directory entries, listed in file-name order, the order in which
\* os.ReadDir returns them.
Pool ==
    << [name |-> <<".", "t", "m", "p">>,      isDir |-> FALSE, mod |-> 3, create |-> 1],
       [name |-> <<"a", ".", "l", "o", "g">>, isDir |-> FALSE, mod |-> 3, create |-> 1],
       [name |-> <<"a", ".", "t", "m", "p">>, isDir |-> FALSE, mod |-> 3, create |-> 1],
       [name |-> <<"b", ".", "t", "m", "p">>, isDir |-> FALSE, mod |-> 2, create |-> 1],
       [name |-> <<"c", ".", "t", "m", "p">>, isDir |-> TRUE,  mod |-> 3, create |-> 1],
       [name |-> <<"d", ".", "t", "m", "p">>, isDir |-> FALSE, mod |-> 3, create |-> 2],
       [name |-> <<"t", "m", "p">>,           isDir |-> FALSE, mod |-> 3, create |-> 1] >>

\* the I/O calls of one loop iteration that may fail
IoCalls == {"info", "open", "create", "copy", "closeS", "closeD", "closeZ", "chtimes"}

SrvEnvs == {"fresh", "exists", "statErr", "mkdirErr", "listErr"}

\* ------------------------------------------------------------ one loop iteration
\* an I/O call of the loop body; it fails when the environment F says so
Call(op, F) == [op |-> op, arg |-> "", ok |-> op \notin F]
\* a log.Printf line
Log(msg) == [op |-> "log", arg |-> msg, ok |-> TRUE]

\* mutant: a file modified exactly at startTime counts as modified after it
SelectedAtOrAfter(f, st, et) == f.mod >= st /\ f.create < et /\ HasSuffix(f.name, DotTmp)

\* fMod.After(startTime) && fCreate.Before(endTime) && strings.HasSuffix(finfo.Name(), ".tmp")
Selected(f, st, et) == f.mod > st /\ f.create < et /\ HasSuffix(f.name, DotTmp)

\* os.Create of the destination; with compress the gzip writer d is made around
\* zd before err is looked at
OpenDestination(F, c) ==
    IF c THEN <<Call("create", F), Call("newWriter", F)>> ELSE <<Call("create", F)>>

\* the error branch after os.Create: log, s.Close(), continue
DestinationFailed(F) == <<Log("cannot open destination file"), Call("closeS", F)>>

\* mutant: the destination file is closed before the gzip writer around it
CloseStreamsFileFirst(F, c) ==
    <<Call("closeS", F)>>
    \o (IF c THEN <<Call("closeZ", F), Call("closeD", F)>> ELSE <<Call("closeD", F)>>)

\* s.Close(); d.Close(); if compress { zd.Close() }   (results discarded)
CloseStreams(F, c) ==
    <<Call("closeS", F), Call("closeD", F)>> \o (IF c THEN <<Call("closeZ", F)>> ELSE <<>>)

\* the error branch after copyFile: log, close the streams, continue
CopyFailed(F, c) == <<Log("cannot copy source to destination")>> \o CloseStreams(F, c)

\* mutant: the modification time is restored before the streams are closed
FinishFileRestoreFirst(F, c) ==
    <<Call("chtimes", F)>>
    \o (IF "chtimes" \in F THEN <<Log("error setting last modified date")>> ELSE <<>>)
    \o CloseStreams(F, c)

\* after a successful copyFile: close the streams, then os.Chtimes(..., time.Now(), fMod)
FinishFile(F, c) ==
    CloseStreams(F, c) \o <<Call("chtimes", F)>>
    \o (IF "chtimes" \in F THEN <<Log("error setting last modified date")>> ELSE <<>>)

\* the body of "for _, f := range sdir": the calls it makes, in order
LoopBody(f, F, c, st, et) ==
    IF f.isDir THEN <<>>
    ELSE IF "info" \in F THEN <<Call("info", F), Log("cannot read file info")>>
    ELSE IF ~Selected(f, st, et) THEN <<Call("info", F)>>
    ELSE IF "open" \in F
        THEN <<Call("info", F), Call("open", F), Log("cannot open source file")>>
    ELSE IF "create" \in F
        THEN <<Call("info", F), Call("open", F)>> \o OpenDestination(F, c)
             \o DestinationFailed(F)
    ELSE IF "copy" \in F
        THEN <<Call("info", F), Call("open", F)>> \o OpenDestination(F, c)
             \o <<Call("copy", F)>> \o CopyFailed(F, c)
    ELSE <<Call("info", F), Call("open", F)>> \o OpenDestination(F, c)
         \o <<Call("copy", F)>> \o FinishFile(F, c)

\* ------------------------------------------------------------ effect of the calls
\* fs = [handles, files]; t is the target name, m the source's fMod
Written(fs, t, data) ==
    [fs EXCEPT !.files = (t :> [data |-> data, mtime |-> WallClock]) @@ fs.files]

\* what the file system and the set of open streams are after call e
Apply(fs, e, t, m, c) ==
    CASE e.op = "open" ->
            IF e.ok THEN [fs EXCEPT !.handles = @ \cup {"s"}] ELSE fs
      [] e.op = "create" ->
            IF e.ok
            THEN Written([fs EXCEPT !.handles = @ \cup {IF c THEN "zd" ELSE "d"}], t, "empty")
            ELSE fs
      [] e.op = "newWriter" -> [fs EXCEPT !.handles = @ \cup {"d"}]
      [] e.op = "copy" ->
            Written(fs, t, IF ~e.ok THEN "partial" ELSE IF c THEN "buffered" ELSE "complete")
      [] e.op = "closeS" -> [fs EXCEPT !.handles = @ \ {"s"}]
      [] e.op = "closeD" ->
            \* with compress d is the gzip writer: Close flushes into zd
            LET old == fs.files[t].data
                new == IF ~c THEN old
                       ELSE IF old = "buffered" THEN (IF e.ok THEN "complete" ELSE "partial")
                       ELSE old
            IN Written([fs EXCEPT !.handles = @ \ {"d"}], t, new)
      [] e.op = "closeZ" ->
            Written([fs EXCEPT !.handles = @ \ {"zd"}], t, fs.files[t].data)
      [] e.op = "chtimes" ->
            IF e.ok THEN [fs EXCEPT !.files[t].mtime = m] ELSE fs
      [] OTHER -> fs

RECURSIVE ApplyAll(_, _, _, _, _)
ApplyAll(fs, es, t, m, c) ==
    IF es = <<>> THEN fs ELSE ApplyAll(Apply(fs, Head(es), t, m, c), Tail(es), t, m, c)

\* the state of the worker's streams and files after the loop body ran on entry f
AfterEntry(fs, f, F, c, st, et) ==
    ApplyAll(fs, LoopBody(f, F, c, st, et), TargetName(f.name, c), f.mod, c)

\* ------------------------------------------------------------ main
Running == [how |-> "no", by |-> 0, why |-> ""]
\* log.Fatalf in the worker of server w: the process ends
Fatal(w, why) == [how |-> "fatal", by |-> w, why |-> why]

\* wg.Add(1)
WgAdd(c) == c + 1
\* w.Done()
WgDone(c) == c - 1

\* one round of "for _, k := range sect.Keys()"
MainLoop ==
    /\ exited = Running /\ mainPc = "loop" /\ ki < Len(keys)
    /\ LET k == keys[ki + 1] IN
         IF k.name = LogshareName
         THEN /\ share' = MustString(k.value, DefaultShare)
              /\ UNCHANGED <<wg, spawned, pc, src>>
         ELSE LET w == k.name[2] IN
              /\ wg' = WgAdd(wg)
              /\ spawned' = [spawned EXCEPT ![w] = @ + 1]
              /\ pc' = [pc EXCEPT ![w] = "stat"]
              /\ src' = [src EXCEPT ![w] = SrcPath(k.value, share)]
              /\ UNCHANGED share
    /\ ki' = ki + 1
    /\ mainPc' = IF ki + 1 = Len(keys) THEN "wait" ELSE "loop"
    /\ UNCHANGED <<keys, compress, startTime, endTime, dir, faults, srvEnv,
                   idx, handles, dstDir, dst, ev, wlog, exited, copyVars, cleanVars>>

\* wg.Wait() returns and main ends
MainWait ==
    /\ exited = Running /\ mainPc = "wait" /\ wg = 0
    /\ mainPc' = "exit"
    /\ exited' = [how |-> "returned", by |-> 0, why |-> ""]
    /\ UNCHANGED <<keys, compress, startTime, endTime, dir, faults, srvEnv, ki, share,
                   wg, spawned, pc, src, idx, handles, dstDir, dst, ev, wlog,
                   copyVars, cleanVars>>

\* ------------------------------------------------------------ CopyFiles
\* os.Stat of <dst>/<server>, os.MkdirAll when it does not exist; log.Fatalf otherwise
WStat(w) ==
    /\ exited = Running /\ pc[w] = "stat"
    /\ wlog' = [wlog EXCEPT ![w] = @ \cup {"scanning"}]
    /\ CASE srvEnv[w] = "exists" ->
              /\ pc' = [pc EXCEPT ![w] = "readdir"]
              /\ UNCHANGED <<dstDir, exited>>
         [] srvEnv[w] = "statErr" ->
              /\ exited' = Fatal(w, "error opening destination folder")
              /\ UNCHANGED <<pc, dstDir>>
         [] srvEnv[w] = "mkdirErr" ->
              /\ exited' = Fatal(w, "error creating destination folder")
              /\ UNCHANGED <<pc, dstDir>>
         [] OTHER ->
              /\ dstDir' = [dstDir EXCEPT ![w] = TRUE]
              /\ pc' = [pc EXCEPT ![w] = "readdir"]
              /\ UNCHANGED exited
    /\ UNCHANGED <<keys, compress, startTime, endTime, dir, faults, srvEnv, mainPc, ki,
                   share, wg, spawned, src, idx, handles, dst, ev, copyVars, cleanVars>>

\* mutant: the early return does not reach w.Done()
OnListErrorNoDone(w) == [exited |-> Running, pc |-> "done", wg |-> wg]
\* mutant: the listing failure is reported with log.Fatalf
OnListErrorFatal(w) ==
    [exited |-> Fatal(w, "unable to open"), pc |-> "done", wg |-> wg]

\* "if err != nil" after os.ReadDir(src): log.Printf and return (the deferred Done runs)
OnListError(w) == [exited |-> Running, pc |-> "done", wg |-> WgDone(wg)]

\* sdir, err := os.ReadDir(src)
WReadDir(w) ==
    /\ exited = Running /\ pc[w] = "readdir"
    /\ IF srvEnv[w] = "listErr"
       THEN LET r == OnListError(w) IN
            /\ wlog' = [wlog EXCEPT ![w] = @ \cup {"unable to open"}]
            /\ exited' = r.exited
            /\ pc' = [pc EXCEPT ![w] = r.pc]
            /\ wg' = r.wg
       ELSE /\ pc' = [pc EXCEPT ![w] = "loop"]
            /\ UNCHANGED <<wlog, exited, wg>>
    /\ UNCHANGED <<keys, compress, startTime, endTime, dir, faults, srvEnv, mainPc, ki,
                   share, spawned, src, idx, handles, dstDir, dst, ev, copyVars, cleanVars>>

\* one iteration of "for _, f := range sdir"
WEntry(w) ==
    /\ exited = Running /\ pc[w] = "loop" /\ idx[w] < Len(dir[w])
    /\ LET f == dir[w][idx[w] + 1]
           F == faults[w][idx[w] + 1]
           fs == AfterEntry([handles |-> handles[w], files |-> dst[w]], f, F,
                            compress, startTime, endTime)
       IN /\ ev' = [ev EXCEPT ![w] = LoopBody(f, F, compress, startTime, endTime)]
          /\ handles' = [handles EXCEPT ![w] = fs.handles]
          /\ dst' = [dst EXCEPT ![w] = fs.files]
    /\ idx' = [idx EXCEPT ![w] = @ + 1]
    /\ UNCHANGED <<keys, compress, startTime, endTime, dir, faults, srvEnv, mainPc, ki,
                   share, wg, spawned, pc, src, dstDir, wlog, exited, copyVars, cleanVars>>

\* the loop is over: "done scanning", return, the deferred w.Done()
WReturn(w) ==
    /\ exited = Running /\ pc[w] = "loop" /\ idx[w] = Len(dir[w])
    /\ wlog' = [wlog EXCEPT ![w] = @ \cup {"done scanning"}]
    /\ pc' = [pc EXCEPT ![w] = "done"]
    /\ wg' = WgDone(wg)
    /\ UNCHANGED <<keys, compress, startTime, endTime, dir, faults, srvEnv, mainPc, ki,
                   share, spawned, src, idx, handles, dstDir, dst, ev, exited,
                   copyVars, cleanVars>>

Worker(w) == WStat(w) \/ WReadDir(w) \/ WEntry(w) \/ WReturn(w)

Next == MainLoop \/ MainWait \/ \E w \in Servers : Worker(w)

\* ------------------------------------------------------------ initial states
\* the faults the environment may inject into one loop iteration: none, one
\* failing call, or every call after the copy failing
FaultChoices == {{}} \cup {{x} : x \in IoCalls} \cup {{"closeS", "closeD", "closeZ", "chtimes"}}

RECURSIVE Listings(_, _)
\* the directories of at most n entries taken in order from pool p, each entry
\* with the faults injected into its iteration (none for a sub-directory, on
\* which the loop makes no call)
Listings(p, n) ==
    IF n = 0 \/ p = <<>> THEN {[dir |-> <<>>, faults |-> <<>>]}
    ELSE Listings(Tail(p), n)
         \cup {[dir |-> <<Head(p)>> \o l.dir, faults |-> <<F>> \o l.faults] :
                  l \in Listings(Tail(p), n - 1),
                  F \in (IF Head(p).isDir THEN {{}} ELSE FaultChoices)}

\* main before the loop over the section's keys; startTime and endTime are set
InitMain(sects, cases, starts, durs) ==
    /\ keys \in sects
    /\ compress \in BOOLEAN
    /\ startTime \in starts
    /\ \E d \in durs : endTime = startTime + d
    /\ \E c \in [ServerKeysOf(keys) -> cases] :
         LET in(w) == w \in ServerKeysOf(keys) IN
         /\ dir = [w \in Servers |-> IF in(w) THEN c[w].dir ELSE <<>>]
         /\ faults = [w \in Servers |-> IF in(w) THEN c[w].faults ELSE <<>>]
         /\ srvEnv = [w \in Servers |-> IF in(w) THEN c[w].env ELSE "fresh"]
    /\ mainPc = "loop" /\ ki = 0 /\ share = "" /\ wg = 0
    /\ spawned = [w \in Servers |-> 0]
    /\ pc = [w \in Servers |-> "idle"]
    /\ src = [w \in Servers |-> SrcPath(HostOf(0), "")]
    /\ idx = [w \in Servers |-> 0]
    /\ handles = [w \in Servers |-> {}]
    /\ dstDir = [w \in Servers |-> FALSE]
    /\ dst = [w \in Servers |-> <<>>]
    /\ ev = [w \in Servers |-> <<>>]
    /\ wlog = [w \in Servers |-> {}]
    /\ exited = Running

\* ------------------------------------------------------------ copyFile
\* buf := make([]byte, 1024)
BufSize == 1024
MaxSrcLen == 3

\* mutant: end-of-stream ends the loop before the bytes read with it are written
AfterReadEofBreak(n, err) ==
    IF err # "nil" /\ err # "EOF" THEN "return err"
    ELSE IF n = 0 \/ err = "EOF" THEN "break"
    ELSE "write"

\* what the loop does with the result (n, err) of source.Read(buf)
AfterRead(n, err) ==
    IF err # "nil" /\ err # "EOF" THEN "return err"
    ELSE IF n = 0 THEN "break"
    ELSE "write"

\* the chunk sizes the model lets a Read of r remaining bytes return: every
\* small size, and the largest one the buffer allows
ChunkSizes(r) == {n \in 1..Min(BufSize, r) : n <= MaxSrcLen \/ n = Min(BufSize, r)}

\* n, err := source.Read(buf) and the two tests that follow it
CRead ==
    /\ cPc = "read"
    /\ LET r == Len(cSrc) - cPos IN
       \E n \in (IF r = 0 THEN {0} ELSE ChunkSizes(r)) \cup {0},
          err \in {"nil", "EOF", "err"} :
          \* a reader hands out 1..len(buf) bytes, reports end-of-stream with the
          \* last bytes or on a read of no bytes, and err on a failure
          /\ (err = "nil") => (n > 0)
          /\ (err = "EOF") => (n = r)
          /\ cBuf' = SubSeq(cSrc, cPos + 1, cPos + n)
          /\ cPos' = cPos + n
          /\ cFailed' = (cFailed \/ err = "err")
          /\ LET a == AfterRead(n, err) IN
               /\ cPc' = IF a = "write" THEN "write" ELSE "done"
               /\ cRet' = IF a = "return err" THEN "error"
                          ELSE IF a = "break" THEN "nil" ELSE cRet
    /\ UNCHANGED <<cSrc, cOut, mainVars, cleanVars>>

\* dest.Write(buf[:n]) and the test that follows it
CWrite ==
    /\ cPc = "write"
    /\ \/ /\ cOut' = cOut \o cBuf
          /\ cPc' = "read"
          /\ UNCHANGED <<cRet, cFailed>>
       \/ \E k \in {j \in 0..(Len(cBuf) - 1) : j <= MaxSrcLen \/ j = Len(cBuf) - 1} :
             \* a failed Write has taken fewer than n bytes
             /\ cOut' = cOut \o SubSeq(cBuf, 1, k)
             /\ cPc' = "done"
             /\ cRet' = "error"
             /\ cFailed' = TRUE
    /\ UNCHANGED <<cSrc, cPos, cBuf, mainVars, cleanVars>>

NextCopy == CRead \/ CWrite

\* ------------------------------------------------------------ time
\* A time is [d, s, f]: day number, second of the day, tenths of a second.
Digits == {"0", "1", "2", "3", "4", "5", "6", "7", "8", "9"}
DigitVal(c) ==
    CASE c = "0" -> 0 [] c = "1" -> 1 [] c = "2" -> 2 [] c = "3" -> 3 [] c = "4" -> 4
      [] c = "5" -> 5 [] c = "6" -> 6 [] c = "7" -> 7 [] c = "8" -> 8 [] c = "9" -> 9
DigitChar(n) == CHOOSE c \in Digits : DigitVal(c) = n

IsLeap(y) == y % 4 = 0 /\ (y % 100 # 0 \/ y % 400 = 0)
\* daysIn(month, year)
DaysIn(m, y) ==
    IF m = 2 THEN (IF IsLeap(y) THEN 29 ELSE 28)
    ELSE IF m \in {4, 6, 9, 11} THEN 30 ELSE 31
RECURSIVE DaysBefore(_, _)
DaysBefore(m, y) == IF m <= 1 THEN 0 ELSE DaysBefore(m - 1, y) + DaysIn(m - 1, y)

\* time.Date(y, mo, d, h, mi, sec, nsec, time.UTC)
Date(y, mo, d, h, mi, sec, f) ==
    [d |-> 365 * y + (y + 3) \div 4 - (y + 99) \div 100 + (y + 399) \div 400
           + DaysBefore(mo, y) + d,
     s |-> 3600 * h + 60 * mi + sec,
     f |-> f]

\* t.Before(u)
Before(t, u) ==
    \/ t.d < u.d
    \/ t.d = u.d /\ t.s < u.s
    \/ t.d = u.d /\ t.s = u.s /\ t.f < u.f

\* t.Add(-1 * dd), dd in seconds
SubSeconds(t, dd) ==
    LET x == t.s - dd IN [d |-> t.d + x \div 86400, s |-> x % 86400, f |-> t.f]

\* t.Add(n seconds)
AddSeconds(t, n) == SubSeconds(t, 0 - n)

Pad2(n) == <<DigitChar(n \div 10), DigitChar(n % 10)>>
\* Format("20060102T150405Z") of the time with these fields
Stamp(y, mo, d, h, mi, sec) ==
    Pad2(y \div 100) \o Pad2(y % 100) \o Pad2(mo) \o Pad2(d) \o <<"T">>
    \o Pad2(h) \o Pad2(mi) \o Pad2(sec) \o <<"Z">>

\* isDigit(s, i), i counted from position 1
IsDigit(v, i) == i >= 1 /\ i <= Len(v) /\ v[i] \in Digits

\* getnum(s, fixed) on the text of v from position p on: one or two digits
Getnum(v, p, fixed) ==
    IF ~IsDigit(v, p) THEN [ok |-> FALSE, val |-> 0, next |-> p]
    ELSE IF ~IsDigit(v, p + 1)
         THEN (IF fixed THEN [ok |-> FALSE, val |-> 0, next |-> p]
               ELSE [ok |-> TRUE, val |-> DigitVal(v[p]), next |-> p + 1])
    ELSE [ok |-> TRUE, val |-> 10 * DigitVal(v[p]) + DigitVal(v[p + 1]), next |-> p + 2]

RECURSIVE DigitsEnd(_, _)
\* the first position from p on that holds no digit
DigitsEnd(v, p) == IF IsDigit(v, p) THEN DigitsEnd(v, p + 1) ELSE p

NoTime == [d |-> 0, s |-> 0, f |-> 0]

\* time.Parse("20060102T150405Z", v): year (4 digits), month and day (2 digits),
\* the letter T, hour (1 or 2 digits), minute and second (2 digits), an optional
\* fraction of a second, the letter Z, nothing more; then the range checks
ParseStamp(v) ==
    LET bad == [ok |-> FALSE, t |-> NoTime]
        yearOk == Len(v) >= 4 /\ \A i \in 1..4 : IsDigit(v, i)
        mo == Getnum(v, 5, TRUE)
        dy == Getnum(v, mo.next, TRUE)
        tOk == dy.next <= Len(v) /\ v[dy.next] = "T"
        hr == Getnum(v, dy.next + 1, FALSE)
        mi == Getnum(v, hr.next, TRUE)
        sc == Getnum(v, mi.next, TRUE)
        frac == sc.next + 1 <= Len(v) /\ v[sc.next] \in {".", ","} /\ IsDigit(v, sc.next + 1)
        zAt == IF frac THEN DigitsEnd(v, sc.next + 1) ELSE sc.next
        f == IF frac THEN DigitVal(v[sc.next + 1]) ELSE 0
    IN IF ~yearOk THEN bad
       ELSE IF ~mo.ok \/ mo.val < 1 \/ mo.val > 12 THEN bad
       ELSE IF ~dy.ok THEN bad
       ELSE IF ~tOk THEN bad
       ELSE IF ~hr.ok \/ hr.val >= 24 THEN bad
       ELSE IF ~mi.ok \/ mi.val >= 60 THEN bad
       ELSE IF ~sc.ok \/ sc.val >= 60 THEN bad
       ELSE IF ~(zAt = Len(v) /\ v[zAt] = "Z") THEN bad
       ELSE LET y == 1000 * DigitVal(v[1]) + 100 * DigitVal(v[2])
                     + 10 * DigitVal(v[3]) + DigitVal(v[4])
            IN IF dy.val < 1 \/ dy.val > DaysIn(mo.val, y) THEN bad
               ELSE [ok |-> TRUE, t |-> Date(y, mo.val, dy.val, hr.val, mi.val, sc.val, f)]

RECURSIVE Split(_, _)
\* strings.Split(s, sep) for a one-character separator
Split(s, sep) ==
    IF \A i \in DOMAIN s : s[i] # sep THEN <<s>>
    ELSE LET k == CHOOSE i \in DOMAIN s : s[i] = sep /\ \A j \in 1..(i - 1) : s[j] # sep
         IN <<SubSeq(s, 1, k - 1)>> \o Split(SubSeq(s, k + 1, Len(s)), sep)

\* ------------------------------------------------------------ cleanup
\* len(entry.Name()) == 33
NameWidth == 33
MaxChildren == 2

\* mutant: a snapshot ending exactly at now - dur is expired too
ExpiredOrEqual(endT, t, dd) == ~Before(SubSeconds(t, dd), endT)

\* endT.Before(time.Now().UTC().Add(-1 * dur))
Expired(endT, t, dd) == Before(endT, SubSeconds(t, dd))

\* len(entry.Name()) == 33 && len(dtParts) == 2
IsCandidate(name) == Len(name) = NameWidth /\ Len(Split(name, "-")) = 2

\* the loop body's decision to call os.RemoveAll on entry e at clock t
ShouldRemove(e, t, dd) ==
    /\ e.isDir
    /\ IsCandidate(e.name)
    /\ LET p == ParseStamp(Split(e.name, "-")[2]) IN p.ok /\ Expired(p.t, t, dd)

\* entries, err := os.ReadDir(destination); log.Fatalf on an error
CleanReadDir ==
    /\ cleanPc = "list"
    /\ \E ok \in BOOLEAN : cleanPc' = IF ok THEN "loop" ELSE "fatal"
    /\ UNCHANGED <<dur, children, ci, now, seen, rmCalls, present, clog, mainVars, copyVars>>

\* one iteration of "for _, entry := range entries"
CleanEntry ==
    /\ cleanPc = "loop" /\ ci < Len(children)
    /\ \E tick \in {0, 1}, rmOk \in BOOLEAN :
         LET e == children[ci + 1]
             t == AddSeconds(now, tick)
             rm == ShouldRemove(e, t, dur)
         IN /\ rm \/ rmOk
            /\ now' = t
            /\ seen' = Append(seen, t)
            /\ rmCalls' = IF rm THEN rmCalls \cup {ci + 1} ELSE rmCalls
            /\ present' = IF rm /\ rmOk THEN present \ {ci + 1} ELSE present
            /\ clog' = IF rm /\ ~rmOk THEN clog \cup {ci + 1} ELSE clog
    /\ ci' = ci + 1
    /\ UNCHANGED <<cleanPc, dur, children, mainVars, copyVars>>

NextClean == CleanReadDir \/ CleanEntry

\* ------------------------------------------------------------ specifications
IdleMain ==
    /\ keys = <<>> /\ compress = FALSE /\ startTime = 0 /\ endTime = 0
    /\ dir = [w \in Servers |-> <<>>]
    /\ faults = [w \in Servers |-> <<>>]
    /\ srvEnv = [w \in Servers |-> "fresh"]
    /\ mainPc = "exit" /\ ki = 0 /\ share = "" /\ wg = 0
    /\ spawned = [w \in Servers |-> 0]
    /\ pc = [w \in Servers |-> "idle"]
    /\ src = [w \in Servers |-> SrcPath(HostOf(0), "")]
    /\ idx = [w \in Servers |-> 0]
    /\ handles = [w \in Servers |-> {}]
    /\ dstDir = [w \in Servers |-> FALSE]
    /\ dst = [w \in Servers |-> <<>>]
    /\ ev = [w \in Servers |-> <<>>]
    /\ wlog = [w \in Servers |-> {}]
    /\ exited = Running

IdleCopy ==
    /\ cSrc = <<>> /\ cPos = 0 /\ cBuf = <<>> /\ cOut = <<>>
    /\ cPc = "done" /\ cRet = "none" /\ cFailed = FALSE

IdleClean ==
    /\ cleanPc = "off" /\ dur = 0 /\ children = <<>> /\ ci = 0 /\ now = NoTime
    /\ seen = <<>> /\ rmCalls = {} /\ present = {} /\ clog = {}

\* --- the fan-out: every section of at most MaxServers servers, in every key order
OneFile == <<Pool[3]>>
ServerCases ==
    {[env |-> "fresh", dir |-> <<>>, faults |-> <<>>],
     [env |-> "fresh", dir |-> OneFile, faults |-> <<{}>>],
     [env |-> "exists", dir |-> OneFile, faults |-> <<{"copy"}>>],
     [env |-> "listErr", dir |-> OneFile, faults |-> <<{}>>],
     [env |-> "mkdirErr", dir |-> OneFile, faults |-> <<{}>>],
     [env |-> "statErr", dir |-> OneFile, faults |-> <<{}>>]}

Init ==
    /\ InitMain(Sections(MaxServers), ServerCases, {MaxTime - 1}, {1})
    /\ IdleCopy /\ IdleClean

Spec == Init /\ [][Next]_vars

\* every goroutine that can take a step eventually takes one
FairSpec ==
    /\ Spec
    /\ WF_vars(MainLoop \/ MainWait)
    /\ \A w \in Servers : WF_vars(Worker(w))

\* --- one worker on every directory of at most MaxEntries entries
WorkerSections ==
    {sect \in Sections(1) :
        Len(sect) = 2 /\ sect[1].name = LogshareName /\ sect[1].value = "LOGS"}
WorkerCases ==
    {[env |-> "fresh", dir |-> l.dir, faults |-> l.faults] : l \in Listings(Pool, MaxEntries)}
    \cup {[env |-> e, dir |-> OneFile, faults |-> <<{}>>] : e \in SrvEnvs \ {"fresh"}}

InitWorker ==
    /\ InitMain(WorkerSections, WorkerCases, 1..(MaxTime - 1), {0, 1})
    /\ IdleCopy /\ IdleClean

WorkerSpec == InitWorker /\ [][Next]_vars

\* --- copyFile on every short source and on sources around the buffer size
RECURSIVE ByteSeqs(_)
ByteSeqs(n) ==
    IF n = 0 THEN {<<>>}
    ELSE ByteSeqs(n - 1) \cup {Append(b, x) : b \in {c \in ByteSeqs(n - 1) : Len(c) = n - 1},
                                              x \in {0, 1}}
LongSrc(n) == [i \in 1..n |-> i % 2]

InitCopy ==
    /\ cSrc \in ByteSeqs(MaxSrcLen) \cup {LongSrc(BufSize), LongSrc(BufSize + 1)}
    /\ cPos = 0 /\ cBuf = <<>> /\ cOut = <<>>
    /\ cPc = "read" /\ cRet = "none" /\ cFailed = FALSE
    /\ IdleMain /\ IdleClean

CopySpec == InitCopy /\ [][NextCopy]_vars

\* --- cleanup on every set of at most MaxChildren children
Garbage16 == [i \in 1..16 |-> "X"]
\* children of <destination>/<cluster>, in file-name order
PrunePool ==
    << [name |-> Tail(Stamp(2024, 1, 1, 0, 0, 0)) \o <<"-">> \o Stamp(2024, 1, 1, 1, 0, 0),
        isDir |-> TRUE],
       [name |-> <<"2", "0", "2", "4", "-">> \o SubSeq(Stamp(2024, 1, 1, 0, 0, 0), 6, 16)
                 \o <<"-">> \o Stamp(2024, 1, 1, 1, 0, 0),
        isDir |-> TRUE],
       [name |-> Stamp(2024, 1, 1, 0, 0, 0) \o <<"-">> \o Stamp(2024, 1, 1, 1, 0, 0),
        isDir |-> TRUE],
       [name |-> Stamp(2024, 1, 1, 0, 0, 0) \o <<"-">> \o Stamp(2024, 2, 30, 1, 0, 0),
        isDir |-> TRUE],
       [name |-> Stamp(2024, 1, 1, 0, 0, 0) \o <<"_">> \o Stamp(2024, 1, 1, 1, 0, 0),
        isDir |-> TRUE],
       [name |-> SubSeq(Stamp(2024, 1, 1, 0, 0, 0), 1, 13) \o <<"Z", "-">>
                 \o SubSeq(Stamp(2024, 1, 1, 1, 0, 0), 1, 15) \o <<".", "5", "Z">>,
        isDir |-> TRUE],
       [name |-> Stamp(2024, 1, 2, 0, 0, 0) \o <<"-">> \o Stamp(2024, 1, 2, 1, 0, 0),
        isDir |-> FALSE],
       [name |-> Stamp(2024, 3, 1, 11, 0, 0) \o <<"-">> \o Stamp(2024, 3, 1, 12, 0, 0),
        isDir |-> TRUE],
       [name |-> Stamp(2024, 3, 1, 12, 0, 0) \o <<"-">> \o Stamp(2024, 3, 1, 13, 0, 0),
        isDir |-> TRUE],
       [name |-> Garbage16 \o <<"-">> \o Stamp(2024, 1, 1, 1, 0, 0),
        isDir |-> TRUE] >>

InitClean ==
    /\ cleanPc = "list"
    /\ dur \in {0, 3600}
    /\ children \in SubSeqs(PrunePool, MaxChildren)
    /\ ci = 0
    /\ now \in {Date(2024, 3, 1, 12, 59, 59, 0), Date(2024, 3, 1, 13, 0, 0, 0)}
    /\ seen = <<>> /\ rmCalls = {}
    /\ present = DOMAIN children
    /\ clog = {}
    /\ IdleMain /\ IdleCopy

CleanSpec == InitClean /\ [][NextClean]_vars

\* ============================================================ properties
Has(es, op) == \E i \in DOMAIN es : es[i].op = op
Pos(es, op) == CHOOSE i \in DOMAIN es : es[i].op = op
\* the name ends with the four characters ".tmp"
EndsWithDotTmp(name) ==
    \E k \in 0..Len(name) : name = SubSeq(name, 1, k) \o <<".", "t", "m", "p">>
\* entry f lies in the window and carries the suffix
Qualifies(f) ==
    ~f.isDir /\ EndsWithDotTmp(f.name) /\ f.mod > startTime /\ f.create < endTime
\* the source was opened and a destination file was created
Transferred(es) ==
    /\ \E i \in DOMAIN es : es[i].op = "open" /\ es[i].ok
    /\ \E i \in DOMAIN es : es[i].op = "create" /\ es[i].ok

\* C1 as stated: the entry handled last was transferred exactly when it is a
\* file named *.tmp, modified strictly after startTime and created strictly
\* before endTime.
C1_Original ==
    \A w \in Servers : idx[w] > 0 =>
        (Transferred(ev[w]) <=> Qualifies(dir[w][idx[w]]))

\* C1 amended: an entry is transferred exactly when it is a file named *.tmp,
\* modified strictly after startTime and created strictly before endTime, and
\* reading its info, opening the source and creating the destination all
\* succeed; the compress flag plays no part.
C1_Selection ==
    \A w \in Servers : idx[w] > 0 =>
        (Transferred(ev[w])
           <=> /\ Qualifies(dir[w][idx[w]])
               /\ faults[w][idx[w]] \cap {"info", "open", "create"} = {})

C1_Witness ==
    \E w \in Servers :
        /\ idx[w] = 2 /\ compress /\ Transferred(ev[w])
        /\ ~Qualifies(dir[w][1]) /\ ~dir[w][1].isDir /\ DOMAIN dst[w] # {}

\* the destination name of entry f
DestName(f) == IF compress THEN f.name \o <<".", "g", "z">> ELSE f.name

\* C6: every handled entry that qualifies and whose info, open, create, copy
\* and timestamp restore did not fail has a destination file whose
\* modification time is the source's; and in the last iteration the restore
\* comes after the copy and after every close.
C6_Timestamp ==
    \A w \in Servers :
        /\ \A i \in 1..idx[w] :
              (/\ Qualifies(dir[w][i])
               /\ faults[w][i] \cap {"info", "open", "create", "copy", "chtimes"} = {})
              => /\ DestName(dir[w][i]) \in DOMAIN dst[w]
                 /\ dst[w][DestName(dir[w][i])].mtime = dir[w][i].mod
        /\ Has(ev[w], "chtimes") =>
              \A i \in DOMAIN ev[w] :
                  ev[w][i].op \in {"copy", "closeS", "closeD", "closeZ"}
                  => i < Pos(ev[w], "chtimes")

C6_Witness ==
    \E w \in Servers :
        /\ idx[w] = 2 /\ compress
        /\ \A i \in 1..2 : Qualifies(dir[w][i]) /\ faults[w][i] \subseteq {"closeD"}
        /\ faults[w][1] = {"closeD"}
        /\ dst[w][DestName(dir[w][1])].mtime = dir[w][1].mod
        /\ dir[w][1].mod # dir[w][2].mod

\* C7 as stated: in the last iteration every failed call is followed by a log
\* line and by no further work on that candidate (only closes), and the worker
\* and the process go on.
C7_PerFileFailures ==
    \A w \in Servers : \A i \in DOMAIN ev[w] :
        ~ev[w][i].ok =>
            /\ \E j \in DOMAIN ev[w] : j > i /\ ev[w][j].op = "log"
            /\ \A j \in DOMAIN ev[w] :
                  j > i => ev[w][j].op \in {"log", "closeS", "closeD", "closeZ"}
            /\ pc[w] \in {"loop", "done"}
            /\ exited.how # "fatal"

\* C8 as stated: between iterations and after the worker returned no stream
\* opened for an entry is still open.
C8_NoLeak ==
    \A w \in Servers : pc[w] \in {"loop", "done"} => handles[w] = {}

\* C9 as stated: after a copy the compressing writer is closed first, the
\* destination file next, the source last.
C9_Original ==
    \A w \in Servers : Has(ev[w], "copy") =>
        /\ Has(ev[w], "closeS") /\ Has(ev[w], "closeD")
        /\ Pos(ev[w], "closeD") < Pos(ev[w], "closeS")
        /\ compress => /\ Has(ev[w], "closeZ")
                       /\ Pos(ev[w], "closeD") < Pos(ev[w], "closeZ")
                       /\ Pos(ev[w], "closeZ") < Pos(ev[w], "closeS")

\* C9 amended: after a copy the source is closed first, then the compressing
\* writer (or, without compression, the destination file), and with
\* compression the destination file last.
C9_CloseOrder ==
    \A w \in Servers : Has(ev[w], "copy") =>
        /\ Has(ev[w], "closeS") /\ Has(ev[w], "closeD")
        /\ Pos(ev[w], "copy") < Pos(ev[w], "closeS")
        /\ Pos(ev[w], "closeS") < Pos(ev[w], "closeD")
        /\ compress => /\ Has(ev[w], "closeZ")
                       /\ Pos(ev[w], "closeD") < Pos(ev[w], "closeZ")
        /\ ~compress => ~Has(ev[w], "closeZ")

C9_Witness ==
    \E w \in Servers :
        /\ compress /\ Has(ev[w], "copy") /\ ev[w][Pos(ev[w], "copy")].ok
        /\ handles[w] = {} /\ Has(ev[w], "closeZ")

\* ------------------------------------------------------------ the fan-out
\* the log-share sub-path the section configures
ClusterShare ==
    LET j == CHOOSE i \in DOMAIN keys : keys[i].name = LogshareName
    IN IF keys[j].value = "" THEN "SPSS_DIMENSIONS_LOGS" ELSE keys[j].value
Configured == {w \in Servers : \E j \in DOMAIN keys : keys[j].name = <<"server", w>>}
ListFailed(w) == "unable to open" \in wlog[w]

\* once the loop over the keys is over, one worker was started per configured
\* server and none for any other; main is past wg.Wait() only when every
\* started worker has completed
BarrierSafe ==
    /\ mainPc \in {"wait", "exit"} =>
          \A w \in Servers : spawned[w] = IF w \in Configured THEN 1 ELSE 0
    /\ \A w \in Servers : spawned[w] <= 1 /\ (spawned[w] = 0 <=> pc[w] = "idle")
    /\ mainPc = "exit" => \A w \in Servers : spawned[w] > 0 => pc[w] = "done"

\* C3: the barrier is safe in every state, and under fair scheduling main
\* passes wg.Wait() unless a worker ended the process with log.Fatalf.
C3_Barrier ==
    /\ []BarrierSafe
    /\ <>(mainPc = "exit" \/ exited.how = "fatal")

C3_Witness ==
    /\ mainPc = "exit" /\ Cardinality(Configured) = 2
    /\ \E w \in Configured : ListFailed(w)
    /\ \E w \in Configured : DOMAIN dst[w] # {}

RECURSIVE RunAlone(_, _, _)
\* the files worker w leaves when it handles entries i.. of its directory
\* starting from files fs, with no other worker in the system
RunAlone(w, i, fs) ==
    IF i > Len(dir[w]) THEN fs.files
    ELSE RunAlone(w, i + 1,
                  AfterEntry(fs, dir[w][i], faults[w][i], compress, startTime, endTime))
AloneResult(w) == RunAlone(w, 1, [handles |-> {}, files |-> <<>>])

\* exactly one configured server's source path cannot be listed, and no
\* destination folder is unusable
OneUnlistable ==
    /\ Cardinality({w \in Configured : srvEnv[w] = "listErr"}) = 1
    /\ \A w \in Configured : srvEnv[w] \in {"fresh", "exists", "listErr"}

\* C4: a worker whose listing failed has logged it, is done, wrote no file and
\* did not end the process; and when exactly one server is unlistable, under
\* fair scheduling main passes the barrier with every other worker done and
\* holding exactly the files it leaves when run alone.
C4_Isolation ==
    /\ [](\A w \in Servers : ListFailed(w) =>
             /\ pc[w] = "done" /\ dst[w] = <<>>
             /\ ~(exited.how = "fatal" /\ exited.by = w))
    /\ OneUnlistable =>
          <>(/\ mainPc = "exit"
             /\ \A w \in Configured :
                   /\ pc[w] = "done"
                   /\ srvEnv[w] = "listErr" => ListFailed(w)
                   /\ srvEnv[w] # "listErr" => dst[w] = AloneResult(w))

C4_Witness ==
    /\ OneUnlistable /\ mainPc = "exit" /\ Cardinality(Configured) = 2
    /\ \E w \in Configured :
          /\ srvEnv[w] # "listErr" /\ dst[w] = AloneResult(w) /\ DOMAIN dst[w] # {}
          /\ \E f \in DOMAIN dst[w] : dst[w][f].data = "partial"

\* C10 as stated: every started worker was given //<its host>/<the section's
\* log share>.
C10_SharePath ==
    \A w \in Servers : pc[w] # "idle" =>
        src[w] = [host |-> <<"host", w>>, share |-> ClusterShare]

\* ------------------------------------------------------------ copyFile
\* C2: when copyFile returns nil the destination holds exactly the source's
\* bytes; once a Read has failed (other than end-of-stream) or a Write has
\* failed, copyFile has stopped and returned an error.
C2_Copy ==
    /\ cRet = "nil" => cOut = cSrc
    /\ cFailed => cRet = "error" /\ cPc = "done"
    /\ cRet = "none" <=> cPc # "done"

C2_Witness == cRet = "nil" /\ Len(cSrc) > 1024 /\ cOut = cSrc

\* ------------------------------------------------------------ cleanup
EndPart(name) == SubSeq(name, 18, 33)
StartPart(name) == SubSeq(name, 1, 16)
Dashes(name) == Cardinality({i \in DOMAIN name : name[i] = "-"})
\* time t lies strictly before time u minus dd seconds
StrictlyOlder(t, u, dd) ==
    LET gap == (t.d - u.d) * 86400 + t.s - (u.s - dd)
    IN gap < 0 \/ (gap = 0 /\ t.f < u.f)

\* C5 as stated: a handled child is removed (or its removal failed and was
\* logged) exactly when it is a directory whose name has 33 characters and two
\* dash-separated parts, both of them stamps that parse, the end stamp
\* strictly before now minus the retention.
C5_Original ==
    \A i \in 1..ci :
        (i \notin present \/ i \in clog) <=>
            /\ children[i].isDir
            /\ Len(children[i].name) = 33 /\ Dashes(children[i].name) = 1
            /\ ParseStamp(Split(children[i].name, "-")[1]).ok
            /\ ParseStamp(Split(children[i].name, "-")[2]).ok
            /\ StrictlyOlder(ParseStamp(Split(children[i].name, "-")[2]).t, seen[i], dur)

\* whether os.RemoveAll is to be called on child i
Prunable(i) ==
    /\ children[i].isDir
    /\ Len(children[i].name) = 33 /\ Dashes(children[i].name) = 1
    /\ LET parts == Split(children[i].name, "-")
       IN /\ ParseStamp(parts[2]).ok
          /\ StrictlyOlder(ParseStamp(parts[2]).t, seen[i], dur)

\* C5 amended: os.RemoveAll is called on a child exactly when it is a
\* directory whose name has 33 characters and two dash-separated parts, the
\* second of which parses to a time strictly before now minus the retention
\* (the first part is not looked at); the child is gone exactly when that
\* call did not fail, and a failed call is logged.
C5_Retention ==
    \A i \in 1..ci :
        /\ i \in rmCalls <=> Prunable(i)
        /\ i \notin present <=> (i \in rmCalls /\ i \notin clog)
        /\ i \in clog => i \in rmCalls

C5_Witness ==
    /\ ci = 2 /\ dur = 3600
    /\ 1 \notin present /\ ParseStamp(StartPart(children[1].name)).ok
    /\ 2 \in present /\ children[2].isDir /\ Len(children[2].name) = 33
    /\ ParseStamp(EndPart(children[2].name)).ok
    /\ ~StrictlyOlder(ParseStamp(EndPart(children[2].name)).t, seen[2], dur)
    /\ StrictlyOlder(ParseStamp(EndPart(children[2].name)).t, seen[2], dur - 1)
====
